---- MODULE Spec2Model ----
(***************************************************************************)
(* Model of src/app.py: a Streamlit dashboard over a SQLite store with     *)
(* eight tables.  Every user action (form submit, button press) is one     *)
(* script run; it is modelled as one action that contains the whole        *)
(* handler, all calls to insert_commit included.                           *)
(*                                                                         *)
(* Text values are sequences of one-character strings, so that strip(),    *)
(* the e-mail pattern and the phone check are computed character by        *)
(* character.  SQL NULL in a TEXT column is the one-element sequence NULL; *)
(* REAL columns hold records [null, v].                                    *)
(***************************************************************************)
EXTENDS Integers, Sequences, FiniteSets, TLC

VARIABLES logged_in, db, last

vars == <<logged_in, db, last>>

(***************************************************************************)
(* Bounds of the model.                                                    *)
(***************************************************************************)
\* Largest number of rows the store holds, all tables together.
MaxRows == 2

\* Largest number of data rows of an uploaded CSV file.
MaxCsvLen == 3

(***************************************************************************)
(* Characters and text.                                                    *)
(***************************************************************************)
DigitChars == <<"0", "1", "2", "3", "4", "5", "6", "7", "8", "9">>

Digits == {DigitChars[i] : i \in 1..10}

Letters ==
    {"a", "b", "c", "d", "e", "f", "g", "h", "i", "j", "k", "l", "m",
     "n", "o", "p", "q", "r", "s", "t", "u", "v", "w", "x", "y", "z",
     "A", "B", "C", "D", "E", "F", "G", "H", "I", "J", "K", "L", "M",
     "N", "O", "P", "Q", "R", "S", "T", "U", "V", "W", "X", "Y", "Z"}

\* Python's str.strip() and the regex class \s: white space.
Whitespace == {" ", "\t", "\n"}

\* The regex class \w.
WordChars == Letters \cup Digits \cup {"_"}

\* SQL NULL in a TEXT column (no text the program handles contains this token).
NULL == <<"<NULL>">>

\* A REAL column's value: a number, or SQL NULL.
Real(n) == [null |-> FALSE, v |-> n]

NullReal == [null |-> TRUE, v |-> 0]

RECURSIVE LStrip(_)
LStrip(s) ==
    IF s # <<>> /\ Head(s) \in Whitespace THEN LStrip(Tail(s)) ELSE s

RECURSIVE RStrip(_)
RStrip(s) ==
    IF s # <<>> /\ s[Len(s)] \in Whitespace
    THEN RStrip(SubSeq(s, 1, Len(s) - 1))
    ELSE s

\* str.strip(): leading and trailing white space removed.
Strip(s) == RStrip(LStrip(s))

\* s without its characters that are in set K.
RECURSIVE Drop(_, _)
Drop(s, K) ==
    IF s = <<>> THEN <<>>
    ELSE IF Head(s) \in K THEN Drop(Tail(s), K)
    ELSE <<Head(s)>> \o Drop(Tail(s), K)

AllIn(s, K) == \A i \in 1..Len(s) : s[i] \in K

\* n written with at least w decimal digits (Python's zero padded %0wd), n >= 0.
RECURSIVE Pad(_, _)
Pad(n, w) ==
    IF n < 10 /\ w <= 1 THEN <<DigitChars[n + 1]>>
    ELSE Pad(n \div 10, w - 1) \o <<DigitChars[(n % 10) + 1]>>

\* datetime.date.isoformat(): YYYY-MM-DD.
IsoFormat(d) == Pad(d.y, 4) \o <<"-">> \o Pad(d.m, 2) \o <<"-">> \o Pad(d.d, 2)

(***************************************************************************)
(* Validation helpers.                                                     *)
(***************************************************************************)
EmailChars == WordChars \cup {".", "-"}

\* re.match(r'^[\w\.-]+@[\w\.-]+\.\w+$', s): some "@" at i and some "." at j
\* split s into a non-empty local part, a non-empty domain and a non-empty
\* word suffix.
EmailPattern(s) ==
    \E i \in 2..Len(s) :
        /\ s[i] = "@"
        /\ AllIn(SubSeq(s, 1, i - 1), EmailChars)
        /\ \E j \in (i + 2)..(Len(s) - 1) :
               /\ s[j] = "."
               /\ AllIn(SubSeq(s, i + 1, j - 1), EmailChars)
               /\ AllIn(SubSeq(s, j + 1, Len(s)), WordChars)

validate_email(email) ==
    IF email = <<>> THEN FALSE ELSE EmailPattern(Strip(email))

\* re.sub(r'\s+|\-|\(|\)', '', phone)
PhoneDigits(phone) == Drop(phone, Whitespace \cup {"-", "(", ")"})

validate_phone(phone) ==
    IF phone = <<>> THEN FALSE
    ELSE LET p == PhoneDigits(phone)
         IN  /\ p # <<>>
             /\ AllIn(p, Digits)
             /\ 10 <= Len(p)
             /\ Len(p) <= 14

(***************************************************************************)
(* The store: the schema of init_db and the two database helpers.          *)
(***************************************************************************)
Tables ==
    {"employees", "attendance", "customers", "suppliers", "purchase_orders",
     "transactions", "tickets", "sales_orders"}

\* The store init_db leaves on first start: every table exists and is empty.
EmptyDb == [t \in Tables |-> <<>>]

\* The values of the INTEGER PRIMARY KEY column of a table.
Ids(tbl) == {tbl[i].id : i \in 1..Len(tbl)}

\* The values of column c of a table.
Column(tbl, c) == {tbl[i][c] : i \in 1..Len(tbl)}

\* The UNIQUE columns of the schema; NULLs never collide.
UniqueColumn(t) ==
    CASE t = "employees" -> "emp_code"
      [] t = "customers" -> "cust_code"
      [] t = "purchase_orders" -> "po_no"
      [] t = "sales_orders" -> "order_no"
      [] OTHER -> ""

\* The schema as it would be with emp_code and cust_code declared plain TEXT:
\* only po_no and order_no are checked.
UniqueViolation_codes_not_unique(d, t, row) ==
    LET c == UniqueColumn(t)
    IN  /\ t \in {"purchase_orders", "sales_orders"}
        /\ row[c] # NULL
        /\ row[c] \in Column(d[t], c)

UniqueViolation(d, t, row) ==
    LET c == UniqueColumn(t)
    IN  /\ c # ""
        /\ row[c] # NULL
        /\ row[c] \in Column(d[t], c)

\* Connections opened without PRAGMA foreign_keys = ON: SQLite checks no
\* foreign key.
ForeignKeyViolation_pragma_off(d, t, row) == FALSE

\* The FOREIGN KEY clauses of the schema, enforced by PRAGMA foreign_keys = ON.
\* The program binds an integer to every such column, never NULL.
ForeignKeyViolation(d, t, row) ==
    CASE t = "attendance" -> row.emp_id \notin Ids(d.employees)
      [] t = "purchase_orders" -> row.supplier_id \notin Ids(d.suppliers)
      [] t = "tickets" -> row.customer_id \notin Ids(d.customers)
      [] t = "sales_orders" -> row.customer_id \notin Ids(d.customers)
      [] OTHER -> FALSE

IntegrityError(d, t, row) ==
    UniqueViolation(d, t, row) \/ ForeignKeyViolation(d, t, row)

\* What insert_commit returns when sqlite3 raised.
None == 0

\* AUTOINCREMENT: one more than the largest id the table ever held.  No
\* statement of the program deletes, so that is the table's length plus one.
NextId(tbl) == Len(tbl) + 1

\* The helper as it would run "INSERT OR REPLACE INTO t(...)": a row that
\* collides on the UNIQUE column deletes the stored row and takes its place.
insert_commit_replacing(d, t, row) ==
    IF ForeignKeyViolation(d, t, row)
    THEN [db |-> d, res |-> None, msgs |-> <<"Database Integrity Error">>]
    ELSE LET kept == IF UniqueViolation(d, t, row)
                     THEN SelectSeq(d[t], LAMBDA r : r[UniqueColumn(t)] # row[UniqueColumn(t)])
                     ELSE d[t]
         IN  [db |-> [d EXCEPT ![t] = Append(kept, [row EXCEPT !.id = NextId(d[t])])],
              res |-> NextId(d[t]),
              msgs |-> <<>>]

\* insert_commit(q, params) for "INSERT INTO t(...) VALUES (...)", row being the
\* full row the statement yields (unnamed columns at their defaults, id not yet
\* set).  Returns the store after the call, lastrowid or None, and the message
\* shown by st.error.
insert_commit(d, t, row) ==
    IF IntegrityError(d, t, row)
    THEN [db |-> d, res |-> None, msgs |-> <<"Database Integrity Error">>]
    ELSE [db |-> [d EXCEPT ![t] = Append(@, [row EXCEPT !.id = NextId(d[t])])],
          res |-> NextId(d[t]),
          msgs |-> <<>>]

\* query_df("SELECT * FROM t"): the rows of the table.
query_df(d, t) == d[t]

\* The number of rows of the whole store.
TotalRows(d) ==
    Len(d.employees) + Len(d.attendance) + Len(d.customers) + Len(d.suppliers)
    + Len(d.purchase_orders) + Len(d.transactions) + Len(d.tickets)
    + Len(d.sales_orders)

(***************************************************************************)
(* Environment reads.                                                      *)
(***************************************************************************)
\* datetime.date.today()
Today == [y |-> 2024, m |-> 1, d |-> 5]

(***************************************************************************)
(* Fixed texts of the program.                                             *)
(***************************************************************************)
Income == <<"I", "n", "c", "o", "m", "e">>

Expense == <<"E", "x", "p", "e", "n", "s", "e">>

Pending == <<"P", "e", "n", "d", "i", "n", "g">>

Open == <<"O", "p", "e", "n">>

New == <<"N", "e", "w">>

Present == <<"P", "r", "e", "s", "e", "n", "t">>

Absent == <<"A", "b", "s", "e", "n", "t">>

Leave == <<"L", "e", "a", "v", "e">>

(***************************************************************************)
(* Form handlers.  Each takes the store and the submitted widget values    *)
(* and returns the store after the run, the number of insert_commit calls  *)
(* it issued and the messages it showed.                                   *)
(***************************************************************************)
\* A handler that stops at a validation error.
Rejected(d, msg) == [db |-> d, calls |-> 0, msgs |-> <<msg>>]

\* A handler that called insert_commit once (result r) and then showed msgs.
Issued(r, msgs) == [db |-> r.db, calls |-> 1, msgs |-> r.msgs \o msgs]

\* Add Employee without the phone branch of its validation chain.
add_emp_phone_unchecked(d, f) ==
    IF Strip(f.emp_code) = <<>> \/ Strip(f.name) = <<>>
    THEN Rejected(d, "Employee Code and Full Name are required.")
    ELSE IF ~validate_email(f.email)
    THEN Rejected(d, "Invalid Email format.")
    ELSE LET r == insert_commit(d, "employees",
                      [id |-> 0,
                       emp_code |-> Strip(f.emp_code),
                       name |-> Strip(f.name),
                       department |-> Strip(f.dept),
                       role |-> Strip(f.role),
                       hire_date |-> IsoFormat(f.hire),
                       email |-> Strip(f.email),
                       phone |-> Strip(f.phone)])
         IN  Issued(r, IF r.res # None
                       THEN <<"Employee added successfully.">>
                       ELSE <<>>)

\* Add Employee binding the e-mail as typed, not stripped.
add_emp_email_as_typed(d, f) ==
    IF Strip(f.emp_code) = <<>> \/ Strip(f.name) = <<>>
    THEN Rejected(d, "Employee Code and Full Name are required.")
    ELSE IF ~validate_email(f.email)
    THEN Rejected(d, "Invalid Email format.")
    ELSE IF ~validate_phone(f.phone)
    THEN Rejected(d, "Invalid Phone number. Use digits (10-14 chars).")
    ELSE LET r == insert_commit(d, "employees",
                      [id |-> 0,
                       emp_code |-> Strip(f.emp_code),
                       name |-> Strip(f.name),
                       department |-> Strip(f.dept),
                       role |-> Strip(f.role),
                       hire_date |-> IsoFormat(f.hire),
                       email |-> f.email,
                       phone |-> Strip(f.phone)])
         IN  Issued(r, IF r.res # None
                       THEN <<"Employee added successfully.">>
                       ELSE <<>>)

\* HR / Employees: "Add Employee".
add_emp(d, f) ==
    IF Strip(f.emp_code) = <<>> \/ Strip(f.name) = <<>>
    THEN Rejected(d, "Employee Code and Full Name are required.")
    ELSE IF ~validate_email(f.email)
    THEN Rejected(d, "Invalid Email format.")
    ELSE IF ~validate_phone(f.phone)
    THEN Rejected(d, "Invalid Phone number. Use digits (10-14 chars).")
    ELSE LET r == insert_commit(d, "employees",
                      [id |-> 0,
                       emp_code |-> Strip(f.emp_code),
                       name |-> Strip(f.name),
                       department |-> Strip(f.dept),
                       role |-> Strip(f.role),
                       hire_date |-> IsoFormat(f.hire),
                       email |-> Strip(f.email),
                       phone |-> Strip(f.phone)])
         IN  Issued(r, IF r.res # None
                       THEN <<"Employee added successfully.">>
                       ELSE <<>>)

\* HR / Attendance: "Save Attendance".  The select box offers the ids of the
\* employees table, so the handler runs only for an existing employee.
save_attendance(d, f) ==
    LET r == insert_commit(d, "attendance",
                 [id |-> 0,
                  emp_id |-> f.emp_id,
                  date |-> IsoFormat(f.date),
                  status |-> f.status,
                  note |-> f.note])
    IN  Issued(r, <<"Attendance recorded.">>)

\* Finance: "Add Transaction".
add_tx(d, f) ==
    IF f.amount <= 0
    THEN Rejected(d, "Amount must be greater than 0.")
    ELSE LET r == insert_commit(d, "transactions",
                      [id |-> 0,
                       tx_date |-> IsoFormat(f.tx_date),
                       tx_type |-> f.tx_type,
                       category |-> f.category,
                       amount |-> Real(f.amount),
                       reference |-> NULL,
                       notes |-> NULL])
         IN  Issued(r, <<"Transaction added.">>)

\* Procurement / Suppliers: "Add Supplier".
add_sup(d, f) ==
    IF Strip(f.s_name) = <<>>
    THEN Rejected(d, "Supplier name is required.")
    ELSE IF f.s_email # <<>> /\ ~validate_email(f.s_email)
    THEN Rejected(d, "Invalid supplier email.")
    ELSE LET r == insert_commit(d, "suppliers",
                      [id |-> 0,
                       name |-> Strip(f.s_name),
                       contact |-> Strip(f.contact),
                       email |-> Strip(f.s_email),
                       address |-> Strip(f.addr)])
         IN  Issued(r, <<"Supplier added.">>)

\* Procurement / Purchase Orders: "Create PO".
add_po(d, f) ==
    IF Strip(f.po_no) = <<>>
    THEN Rejected(d, "PO Number is required.")
    ELSE IF f.total <= 0
    THEN Rejected(d, "Total must be greater than 0.")
    ELSE LET r == insert_commit(d, "purchase_orders",
                      [id |-> 0,
                       po_no |-> Strip(f.po_no),
                       supplier_id |-> f.supplier_id,
                       created_on |-> IsoFormat(f.created_on),
                       due_date |-> IsoFormat(f.due_date),
                       items |-> NULL,
                       total_amount |-> Real(f.total),
                       status |-> Pending,
                       notes |-> NULL])
         IN  Issued(r, <<"PO created.">>)

\* CRM / Customers: "Add Customer".
add_cust(d, f) ==
    IF Strip(f.cust_code) = <<>> \/ Strip(f.name) = <<>>
    THEN Rejected(d, "Customer Code and Name are required.")
    ELSE IF f.email # <<>> /\ ~validate_email(f.email)
    THEN Rejected(d, "Invalid email format.")
    ELSE IF f.phone # <<>> /\ ~validate_phone(f.phone)
    THEN Rejected(d, "Invalid phone number.")
    ELSE LET r == insert_commit(d, "customers",
                      [id |-> 0,
                       cust_code |-> Strip(f.cust_code),
                       name |-> Strip(f.name),
                       email |-> Strip(f.email),
                       phone |-> Strip(f.phone),
                       company |-> NULL,
                       notes |-> NULL])
         IN  Issued(r, <<"Customer added.">>)

\* CRM / Tickets: "Add Ticket".
add_ticket(d, f) ==
    IF Strip(f.subject) = <<>>
    THEN Rejected(d, "Subject is required.")
    ELSE LET r == insert_commit(d, "tickets",
                      [id |-> 0,
                       customer_id |-> f.cust_id,
                       subject |-> Strip(f.subject),
                       description |-> Strip(f.desc),
                       created_on |-> IsoFormat(Today),
                       status |-> Open,
                       assigned_to |-> NULL])
         IN  Issued(r, <<"Ticket added.">>)

\* f"SO-{int(datetime.datetime.now().timestamp())}"
OrderNo(ts) == <<"S", "O", "-">> \o Pad(ts, 1)

\* CRM / Sales Orders: "Create Demo Sales Order (example)", pressed when the
\* clock reads f.ts seconds.
demo_sales_order(d, f) ==
    LET r == insert_commit(d, "sales_orders",
                 [id |-> 0,
                  order_no |-> OrderNo(f.ts),
                  customer_id |-> 1,
                  order_date |-> IsoFormat(Today),
                  total_amount |-> Real(0),
                  status |-> New,
                  notes |-> NULL])
    IN  Issued(r, <<"Demo sales order created.">>)

(***************************************************************************)
(* CSV files as pandas.read_csv hands them to the import loop: a set of    *)
(* column names and a sequence of rows, each row a record of cells.        *)
(***************************************************************************)
\* A cell holding text.
Text(s) == [k |-> "text", s |-> s, n |-> 0]

\* A cell holding a number.
Num(n) == [k |-> "num", s |-> <<>>, n |-> n]

\* A cell of a float64 column holding the whole number n.
Flt(n) == [k |-> "real", s |-> <<>>, n |-> n]

\* An empty cell: pandas reads it as NaN.
NaN == [k |-> "nan", s |-> <<>>, n |-> 0]

\* int(s) for a non-empty sequence of decimal digits.
RECURSIVE DigitsValue(_)
DigitsValue(s) ==
    IF s = <<>> THEN 0
    ELSE 10 * DigitsValue(SubSeq(s, 1, Len(s) - 1))
         + (CHOOSE i \in 0..9 : DigitChars[i + 1] = s[Len(s)])

\* n in decimal, with its sign: str() of an integer.
IntStr(n) == IF n < 0 THEN <<"-">> \o Pad(0 - n, 1) ELSE Pad(n, 1)

\* str(v) of a cell value: str(float('nan')) is 'nan'.
Str(c) ==
    CASE c.k = "text" -> c.s
      [] c.k = "num" -> IntStr(c.n)
      [] c.k = "real" -> IntStr(c.n) \o <<".", "0">>
      [] c.k = "nan" -> <<"n", "a", "n">>

\* A coercion that defaults to 0.0 where float() raises.
Float_defaulting(c) ==
    IF c.k \in {"num", "real"} THEN [raised |-> FALSE, nan |-> FALSE, v |-> c.n]
    ELSE IF c.k = "text" /\ Strip(c.s) # <<>> /\ AllIn(Strip(c.s), Digits)
    THEN [raised |-> FALSE, nan |-> FALSE, v |-> DigitsValue(Strip(c.s))]
    ELSE [raised |-> FALSE, nan |-> FALSE, v |-> 0]

\* float(v) of a cell value, amounts being counted in whole units: a number is
\* itself, NaN stays NaN, text is stripped and read as an optionally signed
\* sequence of digits; text of letters, or empty text, raises ValueError.  (No
\* file of the model writes a fraction, an exponent or an underscore.)
Float(c) ==
    CASE c.k \in {"num", "real"} -> [raised |-> FALSE, nan |-> FALSE, v |-> c.n]
      [] c.k = "nan" -> [raised |-> FALSE, nan |-> TRUE, v |-> 0]
      [] c.k = "text" ->
            LET t == Strip(c.s)
                signed == t # <<>> /\ Head(t) \in {"-", "+"}
                ds == IF signed THEN Tail(t) ELSE t
            IN  IF ds # <<>> /\ AllIn(ds, Digits)
                THEN [raised |-> FALSE, nan |-> FALSE,
                      v |-> IF signed /\ Head(t) = "-"
                            THEN 0 - DigitsValue(ds)
                            ELSE DigitsValue(ds)]
                ELSE [raised |-> TRUE, nan |-> FALSE, v |-> 0]

\* sqlite3 binds a float NaN as NULL.
BindReal(x) == IF x.nan THEN NullReal ELSE Real(x.v)

\* row.get(col, default) on a row of the file.
Get(file, row, col, default) ==
    IF col \in file.cols THEN row[col] ELSE default

(***************************************************************************)
(* pandas.read_csv on a file written by to_csv_bytes: the fields of a      *)
(* column are typed together.                                              *)
(***************************************************************************)
\* The field texts read_csv takes for a missing value (its default na_values).
NaValues ==
    {<<>>,
     <<"#", "N", "/", "A">>,
     <<"#", "N", "/", "A", " ", "N", "/", "A">>,
     <<"#", "N", "A">>,
     <<"-", "1", ".", "#", "I", "N", "D">>,
     <<"-", "1", ".", "#", "Q", "N", "A", "N">>,
     <<"-", "N", "a", "N">>,
     <<"-", "n", "a", "n">>,
     <<"1", ".", "#", "I", "N", "D">>,
     <<"1", ".", "#", "Q", "N", "A", "N">>,
     <<"<", "N", "A", ">">>,
     <<"N", "/", "A">>,
     <<"N", "A">>,
     <<"N", "U", "L", "L">>,
     <<"N", "a", "N">>,
     <<"N", "o", "n", "e">>,
     <<"n", "/", "a">>,
     <<"n", "a", "n">>,
     <<"n", "u", "l", "l">>}

\* An integer literal: digits with an optional sign.
IsIntLit(s) ==
    LET ds == IF s # <<>> /\ Head(s) \in {"-", "+"} THEN Tail(s) ELSE s
    IN  ds # <<>> /\ AllIn(ds, Digits)

IntLitValue(s) ==
    IF Head(s) = "-" THEN 0 - DigitsValue(Tail(s))
    ELSE IF Head(s) = "+" THEN DigitsValue(Tail(s))
    ELSE DigitsValue(s)

\* A decimal literal of a whole number: an integer literal, a point and
\* zeros (the only decimals the store's whole amounts are written as).
IsRealLit(s) ==
    \E k \in 2..(Len(s) - 1) :
        /\ s[k] = "."
        /\ IsIntLit(SubSeq(s, 1, k - 1))
        /\ AllIn(SubSeq(s, k + 1, Len(s)), {"0"})

RealLitValue(s) ==
    IntLitValue(SubSeq(s, 1, (CHOOSE k \in 2..(Len(s) - 1) : s[k] = ".") - 1))

\* The dtype read_csv infers for a column from its fields: int64 when every
\* field is an integer literal, float64 when every present field is a number
\* and some field is missing or a decimal (also when all are missing), object
\* otherwise.
ColumnKind(fields) ==
    LET present == {i \in 1..Len(fields) : fields[i] \notin NaValues}
    IN  IF \A i \in present : IsIntLit(fields[i])
        THEN (IF present = 1..Len(fields) THEN "num" ELSE "real")
        ELSE IF \A i \in present : IsIntLit(fields[i]) \/ IsRealLit(fields[i])
        THEN "real"
        ELSE "text"

\* One field as a cell of a column of the given dtype.
Cell(kind, s) ==
    IF s \in NaValues THEN NaN
    ELSE CASE kind = "num" -> Num(IntLitValue(s))
           [] kind = "real" ->
                 Flt(IF IsIntLit(s) THEN IntLitValue(s) ELSE RealLitValue(s))
           [] kind = "text" -> Text(s)

\* pd.read_csv(uploaded_file) on the header and lines to_csv_bytes wrote.
read_csv(csv) ==
    LET Kind(j) == ColumnKind([i \in 1..Len(csv.lines) |-> csv.lines[i][j]])
        At(c) == CHOOSE j \in 1..Len(csv.header) : csv.header[j] = c
        cols == {csv.header[j] : j \in 1..Len(csv.header)}
    IN  [cols |-> cols,
         rows |-> [i \in 1..Len(csv.lines) |->
                      [c \in cols |-> Cell(Kind(At(c)), csv.lines[i][At(c)])]]]

(***************************************************************************)
(* Data Import/Export: "Append CSV to DB".                                 *)
(***************************************************************************)
UploadTables == {"employees", "customers", "suppliers", "transactions"}

\* The row the INSERT of the chosen branch binds, or raised when building the
\* parameters raised (float() of the amount).
import_params(t, file, row) ==
    CASE t = "employees" ->
            [raised |-> FALSE,
             row |-> [id |-> 0,
                      emp_code |-> Strip(Str(Get(file, row, "emp_code", Text(<<>>)))),
                      name |-> Strip(Str(Get(file, row, "name", Text(<<>>)))),
                      department |-> Strip(Str(Get(file, row, "department", Text(<<>>)))),
                      role |-> Strip(Str(Get(file, row, "role", Text(<<>>)))),
                      hire_date |-> Str(Get(file, row, "hire_date", Text(IsoFormat(Today)))),
                      email |-> Strip(Str(Get(file, row, "email", Text(<<>>)))),
                      phone |-> Strip(Str(Get(file, row, "phone", Text(<<>>))))]]
      [] t = "customers" ->
            [raised |-> FALSE,
             row |-> [id |-> 0,
                      cust_code |-> Strip(Str(Get(file, row, "cust_code", Text(<<>>)))),
                      name |-> Strip(Str(Get(file, row, "name", Text(<<>>)))),
                      email |-> Strip(Str(Get(file, row, "email", Text(<<>>)))),
                      phone |-> Strip(Str(Get(file, row, "phone", Text(<<>>)))),
                      company |-> NULL,
                      notes |-> NULL]]
      [] t = "suppliers" ->
            [raised |-> FALSE,
             row |-> [id |-> 0,
                      name |-> Strip(Str(Get(file, row, "name", Text(<<>>)))),
                      contact |-> Strip(Str(Get(file, row, "contact", Text(<<>>)))),
                      email |-> Strip(Str(Get(file, row, "email", Text(<<>>)))),
                      address |-> Strip(Str(Get(file, row, "address", Text(<<>>))))]]
      [] t = "transactions" ->
            LET x == Float(Get(file, row, "amount", Num(0)))
            IN  [raised |-> x.raised,
                 row |-> [id |-> 0,
                          tx_date |-> Str(Get(file, row, "tx_date", Text(IsoFormat(Today)))),
                          tx_type |-> Strip(Str(Get(file, row, "tx_type", Text(<<>>)))),
                          category |-> Strip(Str(Get(file, row, "category", Text(<<>>)))),
                          amount |-> BindReal(x),
                          reference |-> NULL,
                          notes |-> NULL]]

\* One pass of the loop body for row i, from the loop state st.  An exception
\* while the parameters are built is caught by "except Exception: continue";
\* an IntegrityError is caught inside insert_commit, which returns None, and
\* the loop goes on to "inserted += 1".
import_step(st, t, file, i) ==
    LET p == import_params(t, file, file.rows[i])
    IN  IF p.raised
        THEN [st EXCEPT !.attempted = @ + 1]
        ELSE LET r == insert_commit(st.db, t, p.row)
             IN  [db |-> r.db,
                  calls |-> st.calls + 1,
                  msgs |-> st.msgs \o r.msgs,
                  attempted |-> st.attempted + 1,
                  inserted |-> st.inserted + 1]

\* The loop as it would run with the try around the whole loop instead of around
\* its body: the first exception ends it.
RECURSIVE import_loop_aborting(_, _, _, _)
import_loop_aborting(st, t, file, i) ==
    IF i > Len(file.rows) THEN st
    ELSE IF import_params(t, file, file.rows[i]).raised
    THEN [st EXCEPT !.attempted = @ + 1]
    ELSE import_loop_aborting(import_step(st, t, file, i), t, file, i + 1)

\* for _, row in df_up.iterrows(): rows i..len(df_up), in order.
RECURSIVE import_loop(_, _, _, _)
import_loop(st, t, file, i) ==
    IF i > Len(file.rows) THEN st
    ELSE import_loop(import_step(st, t, file, i), t, file, i + 1)

\* The handler of the button: the loop, then the report
\* "Append finished. Rows processed: {len(df_up)}. (Inserted ~{inserted})".
append_csv(d, f) ==
    LET st == import_loop([db |-> d, calls |-> 0, msgs |-> <<>>,
                           attempted |-> 0, inserted |-> 0],
                          f.upload_table, f.file, 1)
    IN  [db |-> st.db,
         calls |-> st.calls,
         msgs |-> st.msgs \o <<"Append finished.">>,
         attempted |-> st.attempted,
         processed |-> Len(f.file.rows),
         inserted |-> st.inserted]

(***************************************************************************)
(* Read-only views.  Each returns what the page shows.                     *)
(***************************************************************************)
\* ORDER BY id DESC
Reverse(q) == [i \in 1..Len(q) |-> q[Len(q) + 1 - i]]

\* SELECT COUNT(*) FROM tbl WHERE c = v
CountWhere(tbl, c, v) == Cardinality({i \in 1..Len(tbl) : tbl[i][c] = v})

\* SELECT c, COUNT(*) FROM tbl GROUP BY c
GroupCount(tbl, c) == [v \in Column(tbl, c) |-> CountWhere(tbl, c, v)]

\* A sum that nets the table across types: Income counts up, every other type
\* counts down, whatever type is asked for.
RECURSIVE SumAmount_net(_, _)
SumAmount_net(tbl, ty) ==
    IF tbl = <<>> THEN 0
    ELSE (IF Head(tbl).amount.null THEN 0
          ELSE IF Head(tbl).tx_type = Income THEN Head(tbl).amount.v
          ELSE 0 - Head(tbl).amount.v)
         + SumAmount_net(Tail(tbl), ty)

\* The sum of the amounts of the rows of type ty; pandas' sum skips NaN.
RECURSIVE SumAmount(_, _)
SumAmount(tbl, ty) ==
    IF tbl = <<>> THEN 0
    ELSE (IF Head(tbl).tx_type = ty /\ ~Head(tbl).amount.null
          THEN Head(tbl).amount.v ELSE 0)
         + SumAmount(Tail(tbl), ty)

\* df_tx.groupby("tx_type")["amount"].sum()
summary_by_type(tbl) == [ty \in Column(tbl, "tx_type") |-> SumAmount(tbl, ty)]

\* The four counts of the overview and of the PDF snapshot.
pending_counts(d) ==
    [employees |-> Len(query_df(d, "employees")),
     customers |-> Len(query_df(d, "customers")),
     pending_pos |-> CountWhere(query_df(d, "purchase_orders"), "status", Pending),
     open_tickets |-> CountWhere(query_df(d, "tickets"), "status", Open)]

\* A Dashboard that seeds a first supplier when it finds the table empty.
dashboard_seeding(d) ==
    [db |-> IF d.suppliers = <<>>
            THEN insert_commit(d, "suppliers",
                     [id |-> 0, name |-> <<"s">>, contact |-> <<>>,
                      email |-> <<>>, address |-> <<>>]).db
            ELSE d,
     out |-> [counts |-> pending_counts(d),
              dept |-> GroupCount(query_df(d, "employees"), "department"),
              tx |-> [i \in 1..Len(d.transactions) |->
                         <<d.transactions[i].tx_date, d.transactions[i].tx_type,
                           d.transactions[i].amount>>]]]

\* The Dashboard module.
dashboard(d) ==
    [db |-> d,
     out |-> [counts |-> pending_counts(d),
              dept |-> GroupCount(query_df(d, "employees"), "department"),
              tx |-> [i \in 1..Len(d.transactions) |->
                         <<d.transactions[i].tx_date, d.transactions[i].tx_type,
                           d.transactions[i].amount>>]]]

\* Finance / Transactions Summary.
tx_summary(d) ==
    [db |-> d,
     out |-> [rows |-> query_df(d, "transactions"),
              summary |-> summary_by_type(query_df(d, "transactions"))]]

\* The column names of a table, in store order.
Columns(t) ==
    CASE t = "employees" ->
            <<"id", "emp_code", "name", "department", "role", "hire_date", "email", "phone">>
      [] t = "attendance" -> <<"id", "emp_id", "date", "status", "note">>
      [] t = "customers" ->
            <<"id", "cust_code", "name", "email", "phone", "company", "notes">>
      [] t = "suppliers" -> <<"id", "name", "contact", "email", "address">>
      [] t = "purchase_orders" ->
            <<"id", "po_no", "supplier_id", "created_on", "due_date", "items",
              "total_amount", "status", "notes">>
      [] t = "transactions" ->
            <<"id", "tx_date", "tx_type", "category", "amount", "reference", "notes">>
      [] t = "tickets" ->
            <<"id", "customer_id", "subject", "description", "created_on", "status",
              "assigned_to">>
      [] t = "sales_orders" ->
            <<"id", "order_no", "customer_id", "order_date", "total_amount", "status",
              "notes">>

IntColumns == {"id", "emp_id", "supplier_id", "customer_id"}

RealColumns == {"amount", "total_amount"}

\* One field as DataFrame.to_csv writes it: None and NaN as the empty field,
\* an integer in decimal, a float with its fraction, text as it is.
CsvField(c, v) ==
    IF c \in IntColumns THEN IntStr(v)
    ELSE IF c \in RealColumns
    THEN (IF v.null THEN <<>> ELSE IntStr(v.v) \o <<".", "0">>)
    ELSE IF v = NULL THEN <<>> ELSE v

\* to_csv_bytes(df) for the rows of table t: the header and one line of fields
\* per row.
to_csv_bytes(t, rows) ==
    [header |-> Columns(t),
     lines |-> [i \in 1..Len(rows) |->
                   [j \in 1..Len(Columns(t)) |->
                       CsvField(Columns(t)[j], rows[i][Columns(t)[j]])]]]

AnalyticsTables == {"employees", "customers", "transactions", "purchase_orders", "tickets"}

ExportTables ==
    {"employees", "customers", "suppliers", "transactions", "purchase_orders", "tickets"}

\* The Analytics module: the table view and its "Export CSV" download.
analytics(d, f) ==
    LET df_view == Reverse(query_df(d, f.table))
    IN  [db |-> d,
         out |-> [rows |-> df_view,
                  csv |-> IF df_view # <<>>
                          THEN to_csv_bytes(f.table, df_view)
                          ELSE <<>>]]

\* Data Import/Export: "Export Selected Table CSV".
export_csv(d, f) ==
    [db |-> d, out |-> [csv |-> to_csv_bytes(f.export_table, query_df(d, f.export_table))]]

\* PDF Snapshot: "Generate PDF": the label/value sections of the document.
pdf_snapshot(d, f) ==
    LET c == pending_counts(d)
    IN  [db |-> d,
         out |-> [title |-> f.title,
                  sections |-> <<<<"Employees", IntStr(c.employees)>>,
                                 <<"Customers", IntStr(c.customers)>>,
                                 <<"Pending POs", IntStr(c.pending_pos)>>,
                                 <<"Open Tickets", IntStr(c.open_tickets)>>>>]]

(***************************************************************************)
(* Login gate.                                                             *)
(***************************************************************************)
AdminUser == <<"a", "d", "m", "i", "n">>

AdminPassword == <<"a", "d", "m", "i", "n", "1", "2", "3">>

\* A login that compares the username only.
login_password_unchecked(f) == Strip(f.username) = AdminUser

\* The login form's handler: the value of logged_in after the run.
login(f) == Strip(f.username) = AdminUser /\ Strip(f.password) = AdminPassword

(***************************************************************************)
(* The inputs the actions draw from.                                       *)
(***************************************************************************)
GoodEmail == <<"a", "@", "b", ".", "c">>

BadEmail == <<"a", "@", "b">>

GoodPhone == <<"1", "2", "3", "-", "4", "5", "6", "-", "7", "8", "9", "0">>

BadPhone == <<"1", "2", "3", "4", "5">>

DueDate == [y |-> 2024, m |-> 1, d |-> 12]

\* A valid submission of the Add Employee form, with white space to strip.
EmpForm ==
    [emp_code |-> <<" ", "a", " ">>, name |-> <<"n", " ">>, dept |-> <<"d", " ">>,
     role |-> <<"r">>, hire |-> Today, email |-> GoodEmail \o <<" ">>,
     phone |-> GoodPhone]

AddEmpInputs ==
    {EmpForm,
     [EmpForm EXCEPT !.emp_code = <<"b">>],
     [EmpForm EXCEPT !.emp_code = <<"N", "A">>],
     [EmpForm EXCEPT !.emp_code = <<" ">>],
     [EmpForm EXCEPT !.name = <<>>],
     [EmpForm EXCEPT !.email = BadEmail],
     [EmpForm EXCEPT !.phone = BadPhone]}

AttendanceInputs(d) ==
    [emp_id : Ids(d.employees), date : {Today},
     status : {Present, Absent, Leave}, note : {<<>>}]

TxForm == [tx_date |-> Today, tx_type |-> Income, category |-> <<"c">>, amount |-> 100]

AddTxInputs ==
    {TxForm,
     [TxForm EXCEPT !.tx_type = Expense, !.amount = 40],
     [TxForm EXCEPT !.amount = 0]}

SupForm == [s_name |-> <<"s", " ">>, contact |-> <<>>, s_email |-> <<>>, addr |-> <<>>]

AddSupInputs ==
    {SupForm,
     [SupForm EXCEPT !.s_name = <<" ">>],
     [SupForm EXCEPT !.s_email = BadEmail]}

PoForm ==
    [po_no |-> <<"p", " ">>, supplier_id |-> 1, created_on |-> Today,
     due_date |-> DueDate, total |-> 70]

AddPoInputs ==
    {PoForm,
     [PoForm EXCEPT !.po_no = <<"q">>, !.supplier_id = 2],
     [PoForm EXCEPT !.po_no = <<" ">>],
     [PoForm EXCEPT !.total = 0]}

CustForm ==
    [cust_code |-> <<"a", " ">>, name |-> <<"n">>, email |-> GoodEmail,
     phone |-> GoodPhone]

AddCustInputs ==
    {CustForm,
     [CustForm EXCEPT !.cust_code = <<"b">>, !.email = <<>>, !.phone = <<>>],
     [CustForm EXCEPT !.cust_code = <<>>],
     [CustForm EXCEPT !.name = <<" ">>],
     [CustForm EXCEPT !.email = BadEmail],
     [CustForm EXCEPT !.phone = BadPhone]}

TicketForm == [cust_id |-> 1, subject |-> <<"t", " ">>, desc |-> <<>>]

AddTicketInputs ==
    {TicketForm,
     [TicketForm EXCEPT !.cust_id = 2],
     [TicketForm EXCEPT !.subject = <<" ">>]}

\* Clock readings, in seconds, at which the demo button is pressed.
DemoInputs == [ts : {7, 8}]

LoginInputs ==
    [username : {<<" ">> \o AdminUser, <<"r">>},
     password : {AdminPassword, <<"x">>}]

\* Rows of an employees file.
EmpCsvRows ==
    [emp_code : {Text(<<"a">>), NaN},
     name : {Text(<<"n">>)}, department : {Text(<<"d">>)}, role : {Text(<<"r">>)},
     hire_date : {Text(IsoFormat(Today))}, email : {Text(GoodEmail)},
     phone : {Text(GoodPhone)}]

\* Rows of a customers file.
CustCsvRows ==
    [cust_code : {Text(<<"a">>), Text(<<" ", "b">>)},
     name : {Text(<<"n">>)}, email : {Text(GoodEmail)}, phone : {Text(GoodPhone)},
     company : {Text(<<"k">>)}, notes : {Text(<<"x">>)}]

\* Rows of a suppliers file.
SupCsvRows ==
    [name : {Text(<<"s">>)}, contact : {NaN}, email : {NaN}, address : {NaN}]

\* Rows of a transactions file.
TxCsvRows ==
    [tx_date : {Text(IsoFormat(Today))}, tx_type : {Text(Income)},
     category : {Text(<<"c">>)},
     amount : {Text(<<"1", "0", "0">>), Text(<<"-", "5">>), Text(<<"x">>)},
     reference : {Text(<<"f">>)}, notes : {Text(<<"x">>)}]

CsvRows(t) ==
    CASE t = "employees" -> EmpCsvRows
      [] t = "customers" -> CustCsvRows
      [] t = "suppliers" -> SupCsvRows
      [] t = "transactions" -> TxCsvRows

\* The columns of the rows above.
AllCols(t) == DOMAIN (CHOOSE r \in CsvRows(t) : TRUE)

\* The column sets of the files: every column, and for transactions also a
\* file with no amount column and a file with neither an amount nor a tx_type
\* column.
CsvCols(t) ==
    IF t = "transactions"
    THEN {AllCols(t), AllCols(t) \ {"amount"}, AllCols(t) \ {"amount", "tx_type"}}
    ELSE {AllCols(t)}

\* The sequences over S of length at most n.
SeqsUpTo(S, n) == UNION {[1..k -> S] : k \in 0..n}

\* A file's rows hold the file's columns only.
CsvFiles(t) ==
    UNION {[cols : {cols},
            rows : SeqsUpTo({[c \in cols |-> r[c]] : r \in CsvRows(t)}, MaxCsvLen)]
           : cols \in CsvCols(t)}

(***************************************************************************)
(* The state machine.  A script run starts from an empty page (Idle) and   *)
(* ends with last holding what the run was and showed: the operation, the  *)
(* submitted values, the number of insert_commit calls, the messages and   *)
(* the displayed data.  The next interaction discards that page.           *)
(***************************************************************************)
IdlePage == [op |-> "idle", input |-> <<>>, calls |-> 0, msgs |-> <<>>, out |-> <<>>]

Idle == last = IdlePage

Init ==
    /\ logged_in = FALSE
    /\ db = EmptyDb
    /\ last = IdlePage

\* A run that executed a handler with result r (the store, the calls issued,
\* the messages) and showed out.
Ran(op, f, r, out) ==
    /\ TotalRows(r.db) <= MaxRows
    /\ db' = r.db
    /\ last' = [op |-> op, input |-> f, calls |-> r.calls, msgs |-> r.msgs, out |-> out]
    /\ UNCHANGED logged_in

\* A run that showed a read-only view with result r.
Viewed(op, f, r) ==
    /\ db' = r.db
    /\ last' = [op |-> op, input |-> f, calls |-> 0, msgs |-> <<>>, out |-> r.out]
    /\ UNCHANGED logged_in

\* The user touches a widget: Streamlit reruns the script from the top and the
\* previous run's page is gone.
Rerun ==
    /\ ~Idle
    /\ last' = IdlePage
    /\ UNCHANGED <<logged_in, db>>

Login ==
    /\ Idle
    /\ ~logged_in
    /\ \E f \in LoginInputs :
          /\ logged_in' = login(f)
          /\ last' = [op |-> "Login", input |-> f, calls |-> 0,
                      msgs |-> IF login(f) THEN <<"Login successful">>
                               ELSE <<"Invalid credentials">>,
                      out |-> <<>>]
    /\ UNCHANGED db

Logout ==
    /\ Idle
    /\ logged_in
    /\ logged_in' = FALSE
    /\ last' = [op |-> "Logout", input |-> <<>>, calls |-> 0, msgs |-> <<>>, out |-> <<>>]
    /\ UNCHANGED db

AddEmployee ==
    /\ Idle
    /\ logged_in
    /\ \E f \in AddEmpInputs : \E r \in {add_emp(db, f)} :
          Ran("AddEmployee", f, r, <<>>)

SaveAttendance ==
    /\ Idle
    /\ logged_in
    /\ \E f \in AttendanceInputs(db) : \E r \in {save_attendance(db, f)} :
          Ran("SaveAttendance", f, r, <<>>)

AddTransaction ==
    /\ Idle
    /\ logged_in
    /\ \E f \in AddTxInputs : \E r \in {add_tx(db, f)} :
          Ran("AddTransaction", f, r, <<>>)

AddSupplier ==
    /\ Idle
    /\ logged_in
    /\ \E f \in AddSupInputs : \E r \in {add_sup(db, f)} :
          Ran("AddSupplier", f, r, <<>>)

CreatePO ==
    /\ Idle
    /\ logged_in
    /\ \E f \in AddPoInputs : \E r \in {add_po(db, f)} :
          Ran("CreatePO", f, r, <<>>)

AddCustomer ==
    /\ Idle
    /\ logged_in
    /\ \E f \in AddCustInputs : \E r \in {add_cust(db, f)} :
          Ran("AddCustomer", f, r, <<>>)

AddTicket ==
    /\ Idle
    /\ logged_in
    /\ \E f \in AddTicketInputs : \E r \in {add_ticket(db, f)} :
          Ran("AddTicket", f, r, <<>>)

CreateDemoSalesOrder ==
    /\ Idle
    /\ logged_in
    /\ \E f \in DemoInputs : \E r \in {demo_sales_order(db, f)} :
          Ran("CreateDemoSalesOrder", f, r, <<>>)

AppendCsv ==
    /\ Idle
    /\ logged_in
    /\ \E t \in UploadTables : \E file \in CsvFiles(t) :
          \E r \in {append_csv(db, [upload_table |-> t, file |-> file])} :
             Ran("AppendCsv", [upload_table |-> t, file |-> file], r,
                 [attempted |-> r.attempted, processed |-> r.processed,
                  inserted |-> r.inserted])

Dashboard ==
    /\ Idle
    /\ logged_in
    /\ Viewed("Dashboard", <<>>, dashboard(db))

TransactionsSummary ==
    /\ Idle
    /\ logged_in
    /\ Viewed("TransactionsSummary", <<>>, tx_summary(db))

Analytics ==
    /\ Idle
    /\ logged_in
    /\ \E t \in AnalyticsTables :
          Viewed("Analytics", [table |-> t], analytics(db, [table |-> t]))

ExportCsv ==
    /\ Idle
    /\ logged_in
    /\ \E t \in ExportTables :
          Viewed("ExportCsv", [export_table |-> t], export_csv(db, [export_table |-> t]))

PdfSnapshot ==
    /\ Idle
    /\ logged_in
    /\ \E f \in [title : {<<"T">>}] : Viewed("PdfSnapshot", f, pdf_snapshot(db, f))

Next ==
    \/ Rerun
    \/ Login
    \/ Logout
    \/ AddEmployee
    \/ SaveAttendance
    \/ AddTransaction
    \/ AddSupplier
    \/ CreatePO
    \/ AddCustomer
    \/ AddTicket
    \/ CreateDemoSalesOrder
    \/ AppendCsv
    \/ Dashboard
    \/ TransactionsSummary
    \/ Analytics
    \/ ExportCsv
    \/ PdfSnapshot

Spec == Init /\ [][Next]_vars

(***************************************************************************)
(* The Finance module on its own: transactions are added through the form, *)
(* up to MaxTx of them, and the Transactions Summary tab is viewed.        *)
(***************************************************************************)
\* Largest number of transactions of the Finance specification.
MaxTx == 3

NextDay == [y |-> 2024, m |-> 1, d |-> 6]

\* Submissions of the Add Transaction form: Income 100 and Expense 40 today,
\* Income 50 the day after, and one the form rejects.
FinanceTxInputs ==
    AddTxInputs \cup {[TxForm EXCEPT !.tx_date = NextDay, !.amount = 50]}

FinanceAddTransaction ==
    /\ Idle
    /\ logged_in
    /\ \E f \in FinanceTxInputs : \E r \in {add_tx(db, f)} :
          /\ Len(r.db.transactions) <= MaxTx
          /\ db' = r.db
          /\ last' = [op |-> "AddTransaction", input |-> f, calls |-> r.calls,
                      msgs |-> r.msgs, out |-> <<>>]
          /\ UNCHANGED logged_in

FinanceNext ==
    \/ Rerun
    \/ Login
    \/ Logout
    \/ FinanceAddTransaction
    \/ TransactionsSummary

FinanceSpec == Init /\ [][FinanceNext]_vars

(***************************************************************************)
(* Properties.                                                             *)
(***************************************************************************)
\* A stored row without its id.
Data(r) == [r EXCEPT !.id = 0]

\* The table and the file of the import the page in s reports.
ImportTable(s) == s.input.upload_table

ImportFile(s) == s.input.file

\* The unique code the import binds for row i of the file.
ImportCode(t, file, i) ==
    Strip(Str(Get(file, file.rows[i], UniqueColumn(t), Text(<<>>))))

\* The cell holds text that is no number: stripped, it is not a sequence of
\* digits with an optional sign.
Unparseable(c) ==
    /\ c.k = "text"
    /\ LET t == Strip(c.s)
           ds == IF t # <<>> /\ Head(t) \in {"-", "+"} THEN Tail(t) ELSE t
       IN  ds = <<>> \/ \E j \in 1..Len(ds) : ds[j] \notin Digits

\* Row i of the file has an amount and it does not parse.
AmountFails(file, i) ==
    "amount" \in file.cols /\ Unparseable(file.rows[i].amount)

\* Row i of the file fails against store d: its amount does not parse, or its
\* unique code is in the table already or in an earlier row of the file.
RowFails(d, t, file, i) ==
    \/ /\ t = "transactions"
       /\ AmountFails(file, i)
    \/ /\ t \in {"employees", "customers"}
       /\ \/ ImportCode(t, file, i) \in Column(d[t], UniqueColumn(t))
          \/ \E j \in 1..(i - 1) : ImportCode(t, file, j) = ImportCode(t, file, i)

ValidRows(d, t, file) == {i \in 1..Len(file.rows) : ~RowFails(d, t, file, i)}

\* C1: in the CSV bulk import a failing row (its amount does not parse, or its
\* code collides) does not end the loop: all N rows are attempted, the report
\* says N rows processed, the rows the table held stay, and every row that does
\* not fail is added to the table, and nothing else is.
C1_ImportIsolatesRowFailures ==
    [][last'.op = "AppendCsv" =>
          LET t == ImportTable(last')
              file == ImportFile(last')
              N == Len(file.rows)
              before == Len(db[t])
          IN  /\ last'.out.attempted = N
              /\ last'.out.processed = N
              /\ Len(db'[t]) = before + Cardinality(ValidRows(db, t, file))
              /\ SubSeq(db'[t], 1, before) = db[t]
              /\ \A i \in ValidRows(db, t, file) :
                    \E k \in (before + 1)..Len(db'[t]) :
                       Data(db'[t][k]) = import_params(t, file, file.rows[i]).row
              /\ \A u \in Tables \ {t} : db'[u] = db[u]]_vars

\* C1 witness: a transactions import of three rows whose second row's amount
\* does not parse, with the first and the third row stored.
C1_Witness ==
    /\ last.op = "AppendCsv"
    /\ ImportTable(last) = "transactions"
    /\ Len(ImportFile(last).rows) = 3
    /\ ~AmountFails(ImportFile(last), 1)
    /\ AmountFails(ImportFile(last), 2)
    /\ ~AmountFails(ImportFile(last), 3)
    /\ Len(db.transactions) = 2
    /\ last.out.processed = 3

\* C2: the inserted count the import reports equals the number of rows the
\* import added to the target table.
C2_InsertedCountIsRowsAdded ==
    [][last'.op = "AppendCsv" =>
          last'.out.inserted
             = Len(db'[ImportTable(last')]) - Len(db[ImportTable(last')])]_vars

\* The rows of table tbl whose column c holds v.
RowsWhere(tbl, c, v) == {i \in 1..Len(tbl) : tbl[i][c] = v}

\* No two rows of the table share a value of column c.
UniqueIn(tbl, c) ==
    \A i, j \in 1..Len(tbl) : tbl[i][c] = tbl[j][c] => i = j

\* C3: no two employees share an emp_code and no two customers share a
\* cust_code; and after a run of Add Employee or Add Customer that issued its
\* insert (whether the code was new or already present) the table holds exactly
\* one row with the submitted code, a rejected insert having shown the
\* integrity error.
C3_CodesAreUnique ==
    /\ UniqueIn(db.employees, "emp_code")
    /\ UniqueIn(db.customers, "cust_code")
    /\ (last.op = "AddEmployee" /\ last.calls = 1) =>
          /\ Cardinality(RowsWhere(db.employees, "emp_code",
                                   Strip(last.input.emp_code))) = 1
          /\ \/ last.msgs = <<"Employee added successfully.">>
             \/ last.msgs = <<"Database Integrity Error">>
    /\ (last.op = "AddCustomer" /\ last.calls = 1) =>
          Cardinality(RowsWhere(db.customers, "cust_code",
                                Strip(last.input.cust_code))) = 1

\* C3 witness: Add Employee was submitted with a code the table already held;
\* the insert was rejected and the table holds one row with that code.
C3_Witness ==
    /\ last.op = "AddEmployee"
    /\ last.calls = 1
    /\ last.msgs = <<"Database Integrity Error">>
    /\ Cardinality(RowsWhere(db.employees, "emp_code", Strip(last.input.emp_code))) = 1

\* C4: every transaction amount and every purchase order total in the store is
\* non-negative (a NULL amount is no number and is not counted).
C4_AmountsNonNegative ==
    /\ \A i \in 1..Len(db.transactions) :
          db.transactions[i].amount.null \/ db.transactions[i].amount.v >= 0
    /\ \A i \in 1..Len(db.purchase_orders) :
          db.purchase_orders[i].total_amount.null
          \/ db.purchase_orders[i].total_amount.v >= 0

\* The rows of a transactions file whose amount parses, in file order.
RECURSIVE ParsingRows(_, _)
ParsingRows(file, i) ==
    IF i > Len(file.rows) THEN <<>>
    ELSE (IF AmountFails(file, i) THEN <<>> ELSE <<i>>)
         \o ParsingRows(file, i + 1)

\* The rows the run added to table t.
Added(t) == SubSeq(db'[t], Len(db[t]) + 1, Len(db'[t]))

\* C5 as stated: in an import into transactions, every row whose amount does
\* not parse is inserted with amount 0.0.
C5_UnparsedAmountStoredAsZero ==
    [][(last'.op = "AppendCsv" /\ ImportTable(last') = "transactions") =>
          LET file == ImportFile(last')
          IN  /\ Len(Added("transactions")) = Len(file.rows)
              /\ \A i \in 1..Len(file.rows) :
                    AmountFails(file, i)
                       => Added("transactions")[i].amount = Real(0)]_vars

\* C5 amended: in an import into transactions a row whose amount does not parse
\* is skipped: no insert is issued for it, and the rows added are exactly the
\* rows whose amount parses, in file order.  The amount is stored as 0.0 by
\* default only in a file with no amount column, where every row is added with
\* amount 0.0.
C5_UnparsedAmountRowSkipped ==
    [][(last'.op = "AppendCsv" /\ ImportTable(last') = "transactions") =>
          LET file == ImportFile(last')
              ok == ParsingRows(file, 1)
              added == Added("transactions")
          IN  /\ last'.calls = Len(ok)
              /\ Len(added) = Len(ok)
              /\ \A k \in 1..Len(ok) :
                    Data(added[k])
                       = import_params("transactions", file, file.rows[ok[k]]).row
              /\ "amount" \notin file.cols =>
                    /\ Len(added) = Len(file.rows)
                    /\ \A k \in 1..Len(added) : added[k].amount = Real(0)]_vars

\* C5 witness: a transactions import with an amount that does not parse issued
\* fewer inserts than the file has rows.
C5_Witness ==
    /\ last.op = "AppendCsv"
    /\ ImportTable(last) = "transactions"
    /\ "amount" \in ImportFile(last).cols
    /\ \E i \in 1..Len(ImportFile(last).rows) : AmountFails(ImportFile(last), i)
    /\ last.calls < Len(ImportFile(last).rows)
    /\ Len(db.transactions) = last.calls
    /\ last.calls > 0

\* The text is empty once stripped.
Blank(s) == Strip(s) = <<>>

\* The submission page s reports fails the validation of its form: Add Employee
\* with an empty code or name, a malformed e-mail or a malformed phone; Add
\* Transaction with amount <= 0; Create PO with an empty number or total <= 0;
\* Add Supplier, Add Customer, Add Ticket with a required field missing.
FailsValidation(s) ==
    \/ /\ s.op = "AddEmployee"
       /\ \/ Blank(s.input.emp_code)
          \/ Blank(s.input.name)
          \/ ~validate_email(s.input.email)
          \/ ~validate_phone(s.input.phone)
    \/ s.op = "AddTransaction" /\ s.input.amount <= 0
    \/ s.op = "CreatePO" /\ (Blank(s.input.po_no) \/ s.input.total <= 0)
    \/ s.op = "AddSupplier" /\ Blank(s.input.s_name)
    \/ s.op = "AddCustomer" /\ (Blank(s.input.cust_code) \/ Blank(s.input.name))
    \/ s.op = "AddTicket" /\ Blank(s.input.subject)

\* C6: a form submission that fails validation issues no insert and leaves the
\* store as it was.
C6_InvalidSubmissionNeverInserts ==
    [][FailsValidation(last') => (last'.calls = 0 /\ db' = db)]_vars

\* C6 witness: Add Employee was submitted with a good code, name and e-mail and
\* a malformed phone, and was rejected.
C6_Witness ==
    /\ last.op = "AddEmployee"
    /\ ~Blank(last.input.emp_code)
    /\ ~Blank(last.input.name)
    /\ validate_email(last.input.email)
    /\ ~validate_phone(last.input.phone)
    /\ last.calls = 0
    /\ last.msgs = <<"Invalid Phone number. Use digits (10-14 chars).">>

\* "SELECT * FROM employees WHERE emp_code = ?": the matching rows, in id order.
RECURSIVE EmployeesByCode(_, _)
EmployeesByCode(tbl, code) ==
    IF tbl = <<>> THEN <<>>
    ELSE (IF Head(tbl).emp_code = code THEN <<Head(tbl)>> ELSE <<>>)
         \o EmployeesByCode(Tail(tbl), code)

\* The date an ISO text YYYY-MM-DD denotes.
ParseIsoDate(s) ==
    [y |-> DigitsValue(SubSeq(s, 1, 4)),
     m |-> DigitsValue(SubSeq(s, 6, 7)),
     d |-> DigitsValue(SubSeq(s, 9, 10))]

\* C7: a valid Add Employee submission whose stripped code is not in the table
\* is stored: the query by that code then returns exactly one row, holding the
\* stripped code, name, department, role, e-mail and phone and the hire date.
C7_AddEmployeeThenQueryByCode ==
    [][(/\ last'.op = "AddEmployee"
        /\ ~FailsValidation(last')
        /\ Strip(last'.input.emp_code) \notin Column(db.employees, "emp_code"))
       => LET f == last'.input
              got == EmployeesByCode(query_df(db', "employees"), Strip(f.emp_code))
          IN  /\ Len(got) = 1
              /\ got[1].emp_code = Strip(f.emp_code)
              /\ got[1].name = Strip(f.name)
              /\ got[1].department = Strip(f.dept)
              /\ got[1].role = Strip(f.role)
              /\ Len(got[1].hire_date) = 10
              /\ got[1].hire_date[5] = "-"
              /\ got[1].hire_date[8] = "-"
              /\ ParseIsoDate(got[1].hire_date) = f.hire
              /\ got[1].email = Strip(f.email)
              /\ got[1].phone = Strip(f.phone)]_vars

\* C7 witness: Add Employee stored a submission typed with surrounding white
\* space, next to another employee.
C7_Witness ==
    /\ last.op = "AddEmployee"
    /\ last.msgs = <<"Employee added successfully.">>
    /\ last.input.emp_code # Strip(last.input.emp_code)
    /\ last.input.email # Strip(last.input.email)
    /\ Len(db.employees) = 2
    /\ db.employees[2].emp_code = Strip(last.input.emp_code)

RefIntegrity(d) ==
    /\ \A i \in 1..Len(d.attendance) : d.attendance[i].emp_id \in Ids(d.employees)
    /\ \A i \in 1..Len(d.purchase_orders) :
          d.purchase_orders[i].supplier_id \in Ids(d.suppliers)
    /\ \A i \in 1..Len(d.tickets) : d.tickets[i].customer_id \in Ids(d.customers)
    /\ \A i \in 1..Len(d.sales_orders) :
          d.sales_orders[i].customer_id \in Ids(d.customers)

\* The submission page s reports passed validation and named a parent that
\* store d does not hold.
MissingTarget(d, s) ==
    \/ /\ s.op = "CreatePO"
       /\ ~FailsValidation(s)
       /\ s.input.supplier_id \notin Ids(d.suppliers)
    \/ /\ s.op = "AddTicket"
       /\ ~FailsValidation(s)
       /\ s.input.cust_id \notin Ids(d.customers)
    \/ /\ s.op = "CreateDemoSalesOrder"
       /\ 1 \notin Ids(d.customers)

\* C9: every attendance, purchase order, ticket and sales order row names an
\* existing employee, supplier or customer; and a Create PO, Add Ticket or
\* Create Demo Sales Order whose target is missing issues its insert, has the
\* integrity error caught and shown, and leaves the store as it was.
C9_ForeignKeysHold ==
    [][/\ RefIntegrity(db')
       /\ MissingTarget(db, last') =>
             /\ last'.calls = 1
             /\ Head(last'.msgs) = "Database Integrity Error"
             /\ db' = db]_vars

\* C9 witness: Create PO named supplier 2 while the store held one supplier,
\* with a purchase order of supplier 1 in place.
C9_Witness ==
    /\ last.op = "CreatePO"
    /\ last.calls = 1
    /\ Head(last.msgs) = "Database Integrity Error"
    /\ last.input.supplier_id \notin Ids(db.suppliers)
    /\ Len(db.suppliers) = 1

ViewOps == {"Dashboard", "TransactionsSummary", "Analytics", "ExportCsv", "PdfSnapshot"}

\* C10: the Dashboard, the Transactions Summary, the Analytics view, the CSV
\* export and the PDF snapshot leave every table as it was.
C10_ViewsLeaveStoreUnchanged ==
    [][last'.op \in ViewOps => \A t \in Tables : db'[t] = db[t]]_vars

\* C10 witness: the Dashboard was shown over a store that holds an employee and
\* a transaction, and counted them.
C10_Witness ==
    /\ last.op = "Dashboard"
    /\ Len(db.employees) = 1
    /\ Len(db.transactions) = 1
    /\ last.out.counts.employees = 1
    /\ Len(last.out.tx) = 1

\* The sum of the amounts of the rows of tbl at the indices S, NULL amounts
\* left out.
RECURSIVE TotalAt(_, _)
TotalAt(tbl, S) ==
    IF S = {} THEN 0
    ELSE LET i == CHOOSE i \in S : TRUE
         IN  (IF tbl[i].amount.null THEN 0 ELSE tbl[i].amount.v)
             + TotalAt(tbl, S \ {i})

\* The types and amounts of the transactions, in table order.
TypesAndAmounts(tbl) == [i \in 1..Len(tbl) |-> <<tbl[i].tx_type, tbl[i].amount>>]

\* C11: the Transactions Summary shows one figure per transaction type present
\* in the table, and that figure is the gross sum of the amounts of all rows of
\* that type in the whole table; it is not netted across types.  Over Income
\* 100, Expense 40, Income 50 it shows Income 150 and Expense 40.
C11_SummaryIsGrossPerType ==
    last.op = "TransactionsSummary" =>
       LET tbl == db.transactions
           s == last.out.summary
       IN  /\ DOMAIN s = {tbl[i].tx_type : i \in 1..Len(tbl)}
           /\ \A ty \in DOMAIN s :
                 s[ty] = TotalAt(tbl, {i \in 1..Len(tbl) : tbl[i].tx_type = ty})
           /\ TypesAndAmounts(tbl)
                 = <<<<Income, Real(100)>>, <<Expense, Real(40)>>, <<Income, Real(50)>>>>
              => s = (Income :> 150) @@ (Expense :> 40)

\* C11 witness: the summary was shown over Income 100, Expense 40, Income 50,
\* entered on two days, and showed Income 150.
C11_Witness ==
    /\ last.op = "TransactionsSummary"
    /\ TypesAndAmounts(db.transactions)
          = <<<<Income, Real(100)>>, <<Expense, Real(40)>>, <<Income, Real(50)>>>>
    /\ db.transactions[1].tx_date # db.transactions[3].tx_date
    /\ last.out.summary[Income] = 150
    /\ last.out.summary[Expense] = 40

\* The table an export, read back and appended to an empty store, yields.
Reimported(t, csv) ==
    append_csv(EmptyDb, [upload_table |-> t, file |-> read_csv(csv)]).db[t]

\* C12: the CSV exported from employees, customers, suppliers or transactions,
\* appended to an empty table of the same kind, yields as many rows as the
\* exported table holds.
C12_RoundTripKeepsRowCount ==
    (last.op = "ExportCsv" /\ last.input.export_table \in UploadTables) =>
        Len(Reimported(last.input.export_table, last.out.csv))
           = Len(db[last.input.export_table])

\* C13: no step removes a stored record: every row a table holds before a run
\* is in that table after it, and the set of row ids of each table only grows.
C13_RowsAreNeverRemoved ==
    [][\A t \in Tables :
          /\ Ids(db[t]) \subseteq Ids(db'[t])
          /\ \A i \in 1..Len(db[t]) :
                \E k \in 1..Len(db'[t]) : db'[t][k] = db[t][i]]_vars

\* C13 witness: a two-row customers file was appended to a table that held the
\* code of its first row; that insert was refused, the stored row is in place
\* and the second row was added after it.
C13_Witness ==
    /\ last.op = "AppendCsv"
    /\ ImportTable(last) = "customers"
    /\ Len(ImportFile(last).rows) = 2
    /\ last.msgs = <<"Database Integrity Error", "Append finished.">>
    /\ Len(db.customers) = 2
    /\ db.customers[1].cust_code = ImportCode("customers", ImportFile(last), 1)
    /\ db.customers[2].cust_code = ImportCode("customers", ImportFile(last), 2)

\* The values of the status enumerations that no statement of the program
\* writes.
Approved == <<"A", "p", "p", "r", "o", "v", "e", "d">>

Received == <<"R", "e", "c", "e", "i", "v", "e", "d">>

Cancelled == <<"C", "a", "n", "c", "e", "l", "l", "e", "d">>

Closed == <<"C", "l", "o", "s", "e", "d">>

\* C14: in every reachable state every transaction's type is Income or
\* Expense, every purchase order's status is Pending, Approved, Received or
\* Cancelled, and every ticket's status is Open or Closed, whether a form or
\* the CSV import created the row.
C14_EnumeratedFieldsInRange ==
    /\ \A i \in 1..Len(db.transactions) :
          db.transactions[i].tx_type \in {Income, Expense}
    /\ \A i \in 1..Len(db.purchase_orders) :
          db.purchase_orders[i].status \in {Pending, Approved, Received, Cancelled}
    /\ \A i \in 1..Len(db.tickets) :
          db.tickets[i].status \in {Open, Closed}

\* The success reports of the form actions, each with the table its row goes to.
SuccessReports ==
    [msg : {"Employee added successfully."}, table : {"employees"}]
    \cup [msg : {"Attendance recorded."}, table : {"attendance"}]
    \cup [msg : {"Transaction added."}, table : {"transactions"}]
    \cup [msg : {"Supplier added."}, table : {"suppliers"}]
    \cup [msg : {"PO created."}, table : {"purchase_orders"}]
    \cup [msg : {"Customer added."}, table : {"customers"}]
    \cup [msg : {"Ticket added."}, table : {"tickets"}]
    \cup [msg : {"Demo sales order created."}, table : {"sales_orders"}]

\* The messages the page s shows.
Shown(s) == {s.msgs[j] : j \in 1..Len(s.msgs)}

\* C16: a form action that reports success has inserted its row in that run:
\* the table of the report holds one row more than before, and the run showed
\* no integrity error (an insert that insert_commit refused is never followed
\* by a success report).
C16_SuccessMeansInserted ==
    [][\A rep \in SuccessReports :
          rep.msg \in Shown(last') =>
             /\ Len(db'[rep.table]) = Len(db[rep.table]) + 1
             /\ "Database Integrity Error" \notin Shown(last')]_vars

\* C17: a run that starts with logged_in false runs no module code: it is the
\* login page (a submission of the login form, or nothing), issues no insert,
\* shows no table data and leaves the store as it was.  logged_in turns true
\* only in a run of the login form whose username, stripped, is admin and whose
\* password, stripped, is admin123.  A Logout click sets logged_in false, and
\* the run after it is the login page with logged_in still false.
C17_LoginGate ==
    [][/\ ~logged_in =>
             /\ last'.op \in {"Login", "idle"}
             /\ last'.calls = 0
             /\ last'.out = <<>>
             /\ db' = db
       /\ (~logged_in /\ logged_in') =>
             /\ last'.op = "Login"
             /\ Strip(last'.input.username) = <<"a", "d", "m", "i", "n">>
             /\ Strip(last'.input.password) = <<"a", "d", "m", "i", "n", "1", "2", "3">>
       /\ last'.op = "Logout" => (logged_in /\ ~logged_in')
       /\ last.op = "Logout" => (~logged_in' /\ last' = IdlePage)]_vars

\* C17 witness: after an employee was stored and the user logged out, a login
\* with the right username and a wrong password was refused.
C17_Witness ==
    /\ last.op = "Login"
    /\ Strip(last.input.username) = <<"a", "d", "m", "i", "n">>
    /\ Strip(last.input.password) # <<"a", "d", "m", "i", "n", "1", "2", "3">>
    /\ last.msgs = <<"Invalid credentials">>
    /\ ~logged_in
    /\ Len(db.employees) = 1

====
